---- MODULE Spec2Model ----
(***************************************************************************)
(* Model of the ABI extraction tool (cargo-near metadata) and of the code  *)
(* generation pass of near-sdk-macros that feeds it.                       *)
(*                                                                         *)
(* Four specifications share the variables below:                         *)
(*   Spec          the Manifest document editor (manifest.rs)              *)
(*   SpecRewrite   Manifest::rewrite_relative_paths on a file system       *)
(*   SpecExecute   metadata::execute: edit, mirror, run the driver, merge  *)
(*   SpecRegistry  ImplItemMethodInfo::metadata_struct on a TypeRegistry   *)
(*                                                                         *)
(* Strings of the program are sequences of tokens: "/" is the path         *)
(* separator, every other token is a run of bytes without a separator.     *)
(***************************************************************************)
EXTENDS Integers, Sequences, FiniteSets, TLC

VARIABLES
    toml,             \* Manifest.toml: the top-level value::Table
    metadata_package, \* Manifest.metadata_package
    pre,              \* the Manifest (toml, metadata_package) before the last call
    call,             \* the last call: [op, arg]
    ret,              \* its Result: [ok, err]
    ncalls,           \* number of calls made so far
    fs,               \* the file system: cwd, manifest path, existing files
    ex,               \* the extraction run (execute): pc, disk, inputs, result
    rg                \* the code generation pass: registry, functions, output

vars == <<toml, metadata_package, pre, call, ret, ncalls, fs, ex, rg>>

----------------------------------------------------------------------------
(* Bounds of the model.                                                    *)

MaxCrateTypes == 2   \* longest lib.crate-type array of an initial manifest
MaxCalls == 2        \* editor calls made on one Manifest
MaxBins == 2         \* longest [[bin]] array of an initial manifest
MaxArgs == 3         \* most parameters of a contract function
MaxFunctions == 2    \* most functions of one generation pass

----------------------------------------------------------------------------
(* toml::Value.  A table is a function from its keys to values.            *)

Str(s) == [k |-> "String", v |-> s]
Integer(i) == [k |-> "Integer", v |-> i]
Boolean(b) == [k |-> "Boolean", v |-> b]
Array(a) == [k |-> "Array", v |-> a]
Table(t) == [k |-> "Table", v |-> t]

EmptyTable == <<>>

Put(t, key, val) == [x \in (DOMAIN t) \cup {key} |-> IF x = key THEN val ELSE t[x]]
Remove(t, key) == [x \in (DOMAIN t) \ {key} |-> t[x]]

\* Value::get(key) / Value::get_mut(key) with a string index: Some only on a
\* table that has the key.
ValueHas(val, key) == val.k = "Table" /\ key \in DOMAIN val.v

\* Value::as_str
IsStr(val) == val.k = "String"

Ok(t, m) == [ok |-> TRUE, err |-> "", toml |-> t, metadata_package |-> m]
Err(e, t, m) == [ok |-> FALSE, err |-> e, toml |-> t, metadata_package |-> m]

----------------------------------------------------------------------------
(* Manifest: the document editor.                                          *)

\* a crate_type_exists that finds nothing
crate_type_exists_never(crate_type, crate_types) == FALSE

crate_type_exists(crate_type, crate_types) ==
    \E i \in 1..Len(crate_types) :
        IsStr(crate_types[i]) /\ crate_types[i].v = crate_type

\* The error of get_crate_types_mut, "" when it returns the array.
get_crate_types_err(t) ==
    IF "lib" \notin DOMAIN t THEN "lib section not found"
    ELSE IF ~ValueHas(t["lib"], "crate-type") THEN "crate-type section not found"
    ELSE IF t["lib"].v["crate-type"].k # "Array" THEN "crate-types should be an Array"
    ELSE ""

\* a with_added_crate_type that creates a missing [lib] section
with_added_crate_type_create(t, m, crate_type) ==
    IF "lib" \notin DOMAIN t
    THEN Ok(Put(t, "lib", Table(Put(EmptyTable, "crate-type",
                                    Array(<<Str(crate_type)>>)))), m)
    ELSE IF get_crate_types_err(t) # "" THEN Err(get_crate_types_err(t), t, m)
    ELSE LET crate_types == t["lib"].v["crate-type"].v
             pushed == IF ~crate_type_exists(crate_type, crate_types)
                       THEN Append(crate_types, Str(crate_type))
                       ELSE crate_types
         IN Ok(Put(t, "lib", Table(Put(t["lib"].v, "crate-type", Array(pushed)))), m)

with_added_crate_type(t, m, crate_type) ==
    IF get_crate_types_err(t) # "" THEN Err(get_crate_types_err(t), t, m)
    ELSE LET crate_types == t["lib"].v["crate-type"].v
             pushed == IF ~crate_type_exists(crate_type, crate_types)
                       THEN Append(crate_types, Str(crate_type))
                       ELSE crate_types
         IN Ok(Put(t, "lib", Table(Put(t["lib"].v, "crate-type", Array(pushed)))), m)

\* The document after get_profile_release_table_mut: entry().or_insert() has
\* created what was missing before the shape of what is there is looked at.
profile_release_entries(t) ==
    LET t1 == IF "profile" \in DOMAIN t THEN t ELSE Put(t, "profile", Table(EmptyTable))
    IN IF t1["profile"].k # "Table" THEN t1
       ELSE IF "release" \in DOMAIN t1["profile"].v THEN t1
       ELSE Put(t1, "profile", Table(Put(t1["profile"].v, "release", Table(EmptyTable))))

get_profile_release_err(t) ==
    LET t1 == profile_release_entries(t)
    IN IF t1["profile"].k # "Table" THEN "profile should be a table"
       ELSE IF t1["profile"].v["release"].k # "Table" THEN "release should be a table"
       ELSE ""

\* a with_profile_release_lto that keeps an lto that is already set
with_profile_release_lto_keep(t, m, enabled) ==
    LET t1 == profile_release_entries(t)
    IN IF get_profile_release_err(t) # "" THEN Err(get_profile_release_err(t), t1, m)
       ELSE LET release == t1["profile"].v["release"].v
                lto == IF "lto" \in DOMAIN release THEN release["lto"] ELSE Boolean(enabled)
            IN Ok(Put(t1, "profile",
                      Table(Put(t1["profile"].v, "release",
                                Table(Put(release, "lto", lto))))), m)

with_profile_release_lto(t, m, enabled) ==
    LET t1 == profile_release_entries(t)
    IN IF get_profile_release_err(t) # "" THEN Err(get_profile_release_err(t), t1, m)
       ELSE LET release == t1["profile"].v["release"].v
            IN Ok(Put(t1, "profile",
                      Table(Put(t1["profile"].v, "release",
                                Table(Put(release, "lto", Boolean(enabled)))))), m)

METADATA_PACKAGE_PATH == <<".near", "/", "metadata_gen">>

\* The document after the entry().or_insert() calls of with_metadata_package.
workspace_members_entries(t) ==
    LET t1 == IF "workspace" \in DOMAIN t THEN t ELSE Put(t, "workspace", Table(EmptyTable))
    IN IF t1["workspace"].k # "Table" THEN t1
       ELSE IF "members" \in DOMAIN t1["workspace"].v THEN t1
       ELSE Put(t1, "workspace", Table(Put(t1["workspace"].v, "members", Array(<<>>))))

workspace_members_err(t) ==
    LET t1 == workspace_members_entries(t)
    IN IF t1["workspace"].k # "Table" THEN "workspace should be a table"
       ELSE IF t1["workspace"].v["members"].k # "Array" THEN "members should be an array"
       ELSE ""

\* a with_metadata_package that replaces the members that are listed
with_metadata_package_reset(t, m) ==
    LET t1 == workspace_members_entries(t)
    IN IF workspace_members_err(t) # "" THEN Err(workspace_members_err(t), t1, m)
       ELSE Ok(Put(t1, "workspace",
                   Table(Put(t1["workspace"].v, "members",
                             Array(<<Str(METADATA_PACKAGE_PATH)>>)))),
               TRUE)

with_metadata_package(t, m) ==
    LET t1 == workspace_members_entries(t)
    IN IF workspace_members_err(t) # "" THEN Err(workspace_members_err(t), t1, m)
       ELSE LET members == t1["workspace"].v["members"].v
            IN Ok(Put(t1, "workspace",
                      Table(Put(t1["workspace"].v, "members",
                                Array(Append(members, Str(METADATA_PACKAGE_PATH)))))),
                  TRUE)

----------------------------------------------------------------------------
(* std::path on Unix, over token sequences.                                *)

\* Path::is_absolute / !Path::is_relative: the path has a root
IsAbsolute(p) == Len(p) > 0 /\ p[1] = "/"

\* Path::join (PathBuf::push): an absolute path replaces the base; otherwise
\* a separator is added unless the base is empty or ends with one.
PathJoin(base, p) ==
    IF IsAbsolute(p) THEN p
    ELSE IF base = <<>> \/ base[Len(base)] = "/" THEN base \o p
    ELSE base \o <<"/">> \o p

\* Path::parent of an absolute path to a file: the path without its last
\* component and the separator before it; the root stays.
Parent(p) == IF Len(p) <= 2 THEN <<"/">> ELSE SubSeq(p, 1, Len(p) - 2)

\* A run of bytes that is not valid UTF-8, and what to_string_lossy makes of it.
BadBytes == "w\\xFF"
Replaced == "w\\uFFFD"

\* Path::to_string_lossy
to_string_lossy(p) == [i \in 1..Len(p) |-> IF p[i] = BadBytes THEN Replaced ELSE p[i]]

\* Path::canonicalize: the absolute path of an existing file (the file
\* systems of the model have no symbolic links and the paths no `..`).
CanCanonicalize(f, p) == PathJoin(f.cwd, p) \in f.files
Canonicalize(f, p) == PathJoin(f.cwd, p)

\* Path::exists: a relative path is resolved against the current directory
\* of the process.
Exists(f, p) == PathJoin(f.cwd, p) \in f.files

----------------------------------------------------------------------------
(* Manifest::rewrite_relative_paths.                                       *)

SrcLibRs == <<"src", "/", "lib.rs">>
SrcMainRs == <<"src", "/", "main.rs">>

\* a to_absolute that prefixes the directory to whatever path is there
to_absolute_always(existing_path, abs_dir) ==
    IF ~IsStr(existing_path) THEN [err |-> "should be a string", val |-> existing_path]
    ELSE [err |-> "",
          val |-> Str(to_string_lossy(abs_dir \o <<"/">> \o existing_path.v))]

\* the closure to_absolute: [err, val], val the value left in the document
to_absolute(existing_path, abs_dir) ==
    IF ~IsStr(existing_path) THEN [err |-> "should be a string", val |-> existing_path]
    ELSE IF ~IsAbsolute(existing_path.v)
         THEN [err |-> "", val |-> Str(to_string_lossy(PathJoin(abs_dir, existing_path.v)))]
         ELSE [err |-> "", val |-> existing_path]

\* the closure rewrite_path on one table value
rewrite_path(table_value, default, abs_dir, f) ==
    IF table_value.k # "Table"
    THEN [err |-> "section should be a table", val |-> table_value]
    ELSE IF "path" \in DOMAIN table_value.v
    THEN LET r == to_absolute(table_value.v["path"], abs_dir)
         IN [err |-> r.err, val |-> Table(Put(table_value.v, "path", r.val))]
    ELSE IF ~Exists(f, default)
    THEN [err |-> "No path specified, and the default was not found", val |-> table_value]
    ELSE [err |-> "",
          val |-> Table(Put(table_value.v, "path",
                            Str(to_string_lossy(PathJoin(abs_dir, default)))))]

\* for bin in bins { rewrite_path(bin, "[bin]", "src/main.rs")?; } from entry i
RECURSIVE rewrite_bins(_, _, _, _)
rewrite_bins(bins, i, abs_dir, f) ==
    IF i > Len(bins) THEN [err |-> "", val |-> bins]
    ELSE LET r == rewrite_path(bins[i], SrcMainRs, abs_dir, f)
             bins1 == [bins EXCEPT ![i] = r.val]
         IN IF r.err # "" THEN [err |-> r.err, val |-> bins1]
            ELSE rewrite_bins(bins1, i + 1, abs_dir, f)

\* The names a [dependencies] table of the model can hold, in the order the
\* table is iterated.
DepNames == <<"a", "b", "near-sdk">>

\* a package_name that is always the local alias
package_name_alias(name, value) == <<name>>

\* package.and_then(|p| p.as_str()).unwrap_or(name)
package_name(name, value) ==
    IF ValueHas(value, "package") /\ IsStr(value.v["package"])
    THEN value.v["package"].v
    ELSE <<name>>

\* the body of the loop over the dependencies, for one (name, value)
rewrite_dependency(name, value, exclude, abs_dir) ==
    IF package_name(name, value) \notin exclude /\ ValueHas(value, "path")
    THEN LET r == to_absolute(value.v["path"], abs_dir)
         IN [err |-> r.err, val |-> Table(Put(value.v, "path", r.val))]
    ELSE [err |-> "", val |-> value]

\* for (name, value) in table { ... } from the i-th name
RECURSIVE rewrite_dependencies(_, _, _, _)
rewrite_dependencies(deps, i, exclude, abs_dir) ==
    IF i > Len(DepNames) THEN [err |-> "", val |-> deps]
    ELSE IF DepNames[i] \notin DOMAIN deps
    THEN rewrite_dependencies(deps, i + 1, exclude, abs_dir)
    ELSE LET r == rewrite_dependency(DepNames[i], deps[DepNames[i]], exclude, abs_dir)
             deps1 == Put(deps, DepNames[i], r.val)
         IN IF r.err # "" THEN [err |-> r.err, val |-> deps1]
            ELSE rewrite_dependencies(deps1, i + 1, exclude, abs_dir)

\* the three sections in turn; each returns [err, toml]
rewrite_lib(t, abs_dir, f) ==
    IF "lib" \notin DOMAIN t THEN [err |-> "", toml |-> t]
    ELSE LET r == rewrite_path(t["lib"], SrcLibRs, abs_dir, f)
         IN [err |-> r.err, toml |-> Put(t, "lib", r.val)]

rewrite_bin(t, abs_dir, f) ==
    IF "bin" \notin DOMAIN t THEN [err |-> "", toml |-> t]
    ELSE IF t["bin"].k # "Array"
    THEN [err |-> "'[[bin]]' section should be a table array", toml |-> t]
    ELSE LET r == rewrite_bins(t["bin"].v, 1, abs_dir, f)
         IN [err |-> r.err, toml |-> Put(t, "bin", Array(r.val))]

rewrite_deps(t, exclude, abs_dir) ==
    IF "dependencies" \notin DOMAIN t THEN [err |-> "", toml |-> t]
    ELSE IF t["dependencies"].k # "Table"
    THEN [err |-> "dependencies should be a table", toml |-> t]
    ELSE LET r == rewrite_dependencies(t["dependencies"].v, 1, exclude, abs_dir)
         IN [err |-> r.err, toml |-> Put(t, "dependencies", Table(r.val))]

\* f.path is Manifest.path; m is left as it is
rewrite_relative_paths(t, m, exclude, f) ==
    IF ~CanCanonicalize(f, f.path) THEN Err("canonicalize", t, m)
    ELSE LET abs_dir == Parent(Canonicalize(f, f.path))
             r1 == rewrite_lib(t, abs_dir, f)
             r2 == rewrite_bin(r1.toml, abs_dir, f)
             r3 == rewrite_deps(r2.toml, exclude, abs_dir)
         IN IF r1.err # "" THEN Err(r1.err, r1.toml, m)
            ELSE IF r2.err # "" THEN Err(r2.err, r2.toml, m)
            ELSE IF r3.err # "" THEN Err(r3.err, r3.toml, m)
            ELSE Ok(r3.toml, m)

----------------------------------------------------------------------------
(* Manifest::write and metadata::generate_package.  A file is named by its *)
(* place (the scratch directory is "tmp", the target directory "target")   *)
(* and a manifest file's content is the table it deserialises to.          *)

TmpManifest == "tmp/Cargo.toml"
DriverManifest == "tmp/.near/metadata_gen/Cargo.toml"
DriverMain == "tmp/.near/metadata_gen/main.rs"
MetadataFile == "target/abi.json"

\* templates/tools/generate-metadata/_Cargo.toml
TemplateCargoToml ==
    [package |-> Table([name |-> Str(<<"metadata-gen">>), version |-> Str(<<"0.1.0">>)]),
     dependencies |->
        Table([contract |-> Table([path |-> Str(<<"..", "/", "..">>)]),
               serde_json |-> Str(<<"1.0">>)])]

\* templates/tools/generate-metadata/main.rs
TemplateMainRs == "main.rs"

\* a generate_package that copies the near-sdk dependency as it is
generate_package_copy(contract_package_name, near_sdk_dependency) ==
    LET deps == TemplateCargoToml["dependencies"].v
        contract == Put(deps["contract"].v, "package", Str(contract_package_name))
        deps1 == Put(Put(deps, "contract", Table(contract)),
                     "near-sdk", Table(near_sdk_dependency))
    IN << [file |-> DriverManifest,
           content |-> Put(TemplateCargoToml, "dependencies", Table(deps1))],
          [file |-> DriverMain, content |-> TemplateMainRs] >>

\* the files generate_package writes, in order
generate_package(contract_package_name, near_sdk_dependency) ==
    LET deps == TemplateCargoToml["dependencies"].v
        contract == Put(deps["contract"].v, "package", Str(contract_package_name))
        near_sdk == Remove(Remove(Remove(near_sdk_dependency, "default-features"),
                                  "features"), "optional")
        deps1 == Put(Put(deps, "contract", Table(contract)), "near-sdk", Table(near_sdk))
    IN << [file |-> DriverManifest,
           content |-> Put(TemplateCargoToml, "dependencies", Table(deps1))],
          [file |-> DriverMain, content |-> TemplateMainRs] >>

\* the structural error of Manifest::write on a flagged document, "" if none
write_err(t) ==
    IF "package" \notin DOMAIN t THEN "package section not found"
    ELSE IF ~ValueHas(t["package"], "name") THEN "[package] name field not found"
    ELSE IF ~IsStr(t["package"].v["name"]) THEN "[package] name should be a string"
    ELSE IF "dependencies" \notin DOMAIN t THEN "[dependencies] section not found"
    ELSE IF ~ValueHas(t["dependencies"], "near-sdk") THEN "near-sdk dependency not found"
    ELSE IF t["dependencies"].v["near-sdk"].k # "Table"
         THEN "near-sdk dependency should be a table"
    ELSE ""

\* a write that persists the document before it looks at the driver package
write_target_first(t, m) ==
    IF m /\ write_err(t) # ""
    THEN [err |-> write_err(t), files |-> << [file |-> TmpManifest, content |-> t] >>]
    ELSE [err |-> "",
          files |-> << [file |-> TmpManifest, content |-> t] >>
                    \o (IF m THEN generate_package(t["package"].v["name"].v,
                                                   t["dependencies"].v["near-sdk"].v)
                        ELSE <<>>)]

\* Manifest::write to the scratch directory: [err, files], the files written
\* in order
write(t, m) ==
    IF m /\ write_err(t) # "" THEN [err |-> write_err(t), files |-> <<>>]
    ELSE [err |-> "",
          files |-> (IF m THEN generate_package(t["package"].v["name"].v,
                                                t["dependencies"].v["near-sdk"].v)
                          ELSE <<>>)
                    \o << [file |-> TmpManifest, content |-> t] >>]

----------------------------------------------------------------------------
(* The manifests the editor is run on: what toml::from_str can load.       *)

SeqsUpTo(S, n) == UNION {[1..i -> S] : i \in 0..n}

\* a table with at most the given optional key
Opt(key, vals) == {EmptyTable} \cup {Put(EmptyTable, key, x) : x \in vals}

Merge(a, b) == [x \in (DOMAIN a) \cup (DOMAIN b) |-> IF x \in DOMAIN b THEN b[x] ELSE a[x]]

CrateTypeNames == {<<"rlib">>, <<"cdylib">>}

CrateTypeElems == {Str(c) : c \in CrateTypeNames} \cup {Integer(1)}

EditLibs ==
    {Str(<<"lib">>)}
    \cup {Table(Merge(Put(EmptyTable, "name", Str(<<"adder">>)), c)) :
            c \in Opt("crate-type", {Str(<<"rlib">>)}
                        \cup {Array(a) : a \in SeqsUpTo(CrateTypeElems, MaxCrateTypes)})}

EditReleases ==
    {Str(<<"release">>)}
    \cup {Table(Merge(Put(EmptyTable, "debug", Boolean(TRUE)), l)) :
            l \in Opt("lto", {Boolean(TRUE), Boolean(FALSE), Str(<<"thin">>)})}

EditProfiles ==
    {Str(<<"profile">>)}
    \cup {Table(Merge(Put(EmptyTable, "dev", Table(EmptyTable)), r)) :
            r \in Opt("release", EditReleases)}

EditWorkspaces ==
    {Str(<<"workspace">>)}
    \cup {Table(m) : m \in Opt("members", {Str(<<"a">>), Array(<<>>),
                                           Array(<<Str(<<"a">>)>>)})}

PackageAdder == Table([name |-> Str(<<"adder">>), version |-> Str(<<"0.1.0">>)])

EditManifests ==
    {Merge(Merge(Merge(Put(EmptyTable, "package", PackageAdder), l), p), w) :
        l \in Opt("lib", EditLibs),
        p \in Opt("profile", EditProfiles),
        w \in Opt("workspace", EditWorkspaces)}

----------------------------------------------------------------------------
(* Spec: calls of the editor on one Manifest.                              *)

\* The parts of the state a specification does not use.
NoFs == [cwd |-> <<>>, path |-> <<>>, files |-> {}]
NoEx == [pc |-> "idle"]
NoRg == [pc |-> "idle"]

Manifest(t, m) == [toml |-> t, metadata_package |-> m]

\* Manifest::new
NewManifest(t) ==
    /\ toml = t
    /\ metadata_package = FALSE
    /\ pre = Manifest(t, FALSE)
    /\ call = [op |-> "new", arg |-> <<>>]
    /\ ret = [ok |-> TRUE, err |-> ""]
    /\ ncalls = 0

Init ==
    /\ \E t \in EditManifests : NewManifest(t)
    /\ fs = NoFs
    /\ ex = NoEx
    /\ rg = NoRg

\* One call of a method of Manifest, with the Result r it returns.
Called(op, arg, r) ==
    /\ ncalls < MaxCalls
    /\ ncalls' = ncalls + 1
    /\ pre' = Manifest(toml, metadata_package)
    /\ call' = [op |-> op, arg |-> arg]
    /\ ret' = [ok |-> r.ok, err |-> r.err]
    /\ toml' = r.toml
    /\ metadata_package' = r.metadata_package

AddCrateType ==
    /\ \E c \in CrateTypeNames :
           Called("with_added_crate_type", c, with_added_crate_type(toml, metadata_package, c))
    /\ UNCHANGED <<fs, ex, rg>>

SetProfileReleaseLto ==
    /\ \E b \in BOOLEAN :
           Called("with_profile_release_lto", b,
                  with_profile_release_lto(toml, metadata_package, b))
    /\ UNCHANGED <<fs, ex, rg>>

AddMetadataPackage ==
    /\ Called("with_metadata_package", <<>>, with_metadata_package(toml, metadata_package))
    /\ UNCHANGED <<fs, ex, rg>>

Next == AddCrateType \/ SetProfileReleaseLto \/ AddMetadataPackage

Spec == Init /\ [][Next]_vars

----------------------------------------------------------------------------
(* Helpers of the properties.                                              *)

Max(a, b) == IF a >= b THEN a ELSE b

Count(seq, x) == Cardinality({i \in 1..Len(seq) : seq[i] = x})

Others(seq, x) == SelectSeq(seq, LAMBDA e : e # x)

\* the table under key, empty when the key is absent
Sub(t, key) == IF key \in DOMAIN t THEN t[key].v ELSE EmptyTable

\* new is old with at most the value under key changed or added
SameExcept(new, old, key) ==
    /\ DOMAIN new = (DOMAIN old) \cup {key}
    /\ \A x \in (DOMAIN old) \ {key} : new[x] = old[x]

----------------------------------------------------------------------------
(* C1: Manifest::with_added_crate_type(t) on a manifest whose              *)
(* lib.crate-type is an array succeeds; afterwards the array holds t as    *)
(* often as max(1, its count before), the other elements are kept in       *)
(* order, and a second call with the same t returns the same document.     *)
C1_AddedCrateTypeIdempotent ==
    (call.op = "with_added_crate_type" /\ get_crate_types_err(pre.toml) = "") =>
        LET before == pre.toml["lib"].v["crate-type"].v
            after == toml["lib"].v["crate-type"].v
            t == Str(call.arg)
        IN /\ ret.ok
           /\ get_crate_types_err(toml) = ""
           /\ Count(after, t) = Max(1, Count(before, t))
           /\ Others(after, t) = Others(before, t)
           /\ with_added_crate_type(toml, metadata_package, call.arg)
                  = Ok(toml, metadata_package)

\* the value was absent from a non-empty array and has been appended
C1_Witness ==
    /\ call.op = "with_added_crate_type"
    /\ get_crate_types_err(pre.toml) = ""
    /\ ret.ok
    /\ Len(pre.toml["lib"].v["crate-type"].v) >= 1
    /\ Count(pre.toml["lib"].v["crate-type"].v, Str(call.arg)) = 0
    /\ Count(toml["lib"].v["crate-type"].v, Str(call.arg)) = 1

----------------------------------------------------------------------------
(* C10: with_profile_release_lto(b) succeeds when profile and              *)
(* profile.release are absent or tables; then profile.release.lto = b and  *)
(* every other key of the document is as before.  When profile or          *)
(* profile.release is something else it fails with a structural error and  *)
(* overwrites nothing.                                                     *)
ProfileShapeOk(t) ==
    \/ "profile" \notin DOMAIN t
    \/ /\ t["profile"].k = "Table"
       /\ \/ "release" \notin DOMAIN t["profile"].v
          \/ t["profile"].v["release"].k = "Table"

\* C10: lto is set to b, nothing else changes; a profile or release that is
\* not a table is an error and is not overwritten
C10_ProfileReleaseLto ==
    (call.op = "with_profile_release_lto") =>
        IF ProfileShapeOk(pre.toml)
        THEN /\ ret.ok
             /\ SameExcept(toml, pre.toml, "profile")
             /\ toml["profile"].k = "Table"
             /\ SameExcept(toml["profile"].v, Sub(pre.toml, "profile"), "release")
             /\ toml["profile"].v["release"].k = "Table"
             /\ SameExcept(toml["profile"].v["release"].v,
                           Sub(Sub(pre.toml, "profile"), "release"), "lto")
             /\ toml["profile"].v["release"].v["lto"] = Boolean(call.arg)
             /\ metadata_package = pre.metadata_package
        ELSE /\ ~ret.ok
             /\ ret.err \in {"profile should be a table", "release should be a table"}
             /\ toml = pre.toml

\* an lto that was set to the other value, or to a string, has been overwritten
C10_Witness ==
    /\ call.op = "with_profile_release_lto"
    /\ ret.ok
    /\ "profile" \in DOMAIN pre.toml
    /\ ValueHas(pre.toml["profile"], "release")
    /\ ValueHas(pre.toml["profile"].v["release"], "lto")
    /\ pre.toml["profile"].v["release"].v["lto"] # Boolean(call.arg)
    /\ toml["profile"].v["release"].v["lto"] = Boolean(call.arg)

----------------------------------------------------------------------------
(* SpecRewrite: rewrite_relative_paths on a manifest and a file system.    *)

PathVals == {Str(<<"src", "/", "x.rs">>), Str(<<"/", "abs", "/", "x.rs">>), Integer(1)}

RwLibs ==
    {Str(<<"lib">>)}
    \cup {Table(Merge(Put(EmptyTable, "name", Str(<<"adder">>)), p)) :
            p \in Opt("path", PathVals)}

RwBinEntries == {Str(<<"bin">>)} \cup {Table(p) : p \in Opt("path", PathVals)}

RwBins == {Str(<<"bin">>)} \cup {Array(a) : a \in SeqsUpTo(RwBinEntries, MaxBins)}

RwDepA ==
    {Str(<<"1.0">>)}
    \cup {Table(Merge(k, p)) :
            k \in Opt("package", {Str(<<"b">>), Integer(1)}),
            p \in Opt("path", PathVals)}

RwDepB == {Table(Put(EmptyTable, "path", Str(<<"..", "/", "b">>)))}

RwDeps ==
    {Str(<<"dependencies">>)}
    \cup {Table(Merge(a, b)) : a \in Opt("a", RwDepA), b \in Opt("b", RwDepB)}

PlainLibs == Opt("lib", {Table(Put(EmptyTable, "path", Str(<<"src", "/", "x.rs">>)))})
PlainBins == Opt("bin", {Array(<<Table(EmptyTable)>>)})
PlainDeps == Opt("dependencies", {Table(Put(EmptyTable, "b", Str(<<"1.0">>)))})

WithPackage(l, b, d) == Merge(Merge(Merge(Put(EmptyTable, "package", PackageAdder), l), b), d)

RewriteManifests ==
    {WithPackage(l, b, d) : l \in Opt("lib", RwLibs), b \in PlainBins, d \in PlainDeps}
    \cup {WithPackage(l, b, d) : l \in PlainLibs, b \in Opt("bin", RwBins), d \in PlainDeps}
    \cup {WithPackage(l, b, d) : l \in PlainLibs, b \in PlainBins,
                                 d \in Opt("dependencies", RwDeps)}

WsDir == <<"/", "ws">>
OtherDir == <<"/", "other">>
BadDir == <<"/", BadBytes>>
CargoToml == <<"Cargo.toml">>

SrcFiles(dir) == {PathJoin(dir, SrcLibRs), PathJoin(dir, SrcMainRs)}

\* The manifest in the current directory and named by its file name; the
\* manifest of /ws named by its absolute path from another directory; and a
\* manifest that was removed after it was loaded.
FileSystems ==
    {[cwd |-> d, path |-> CargoToml,
      files |-> {PathJoin(d, CargoToml)} \cup (IF has THEN SrcFiles(d) ELSE {})] :
        d \in {WsDir, BadDir}, has \in BOOLEAN}
    \cup {[cwd |-> OtherDir, path |-> PathJoin(WsDir, CargoToml),
           files |-> {PathJoin(WsDir, CargoToml)} \cup s1 \cup s2] :
            s1 \in {{}, SrcFiles(WsDir)}, s2 \in {{}, SrcFiles(OtherDir)}}
    \cup {[cwd |-> WsDir, path |-> CargoToml, files |-> {}]}

ExcludeSets == SUBSET {<<"a">>, <<"b">>}

InitRewrite ==
    /\ \E t \in RewriteManifests : NewManifest(t)
    /\ fs \in FileSystems
    /\ ex = NoEx
    /\ rg = NoRg

RewriteRelativePaths ==
    /\ \E e \in ExcludeSets :
           Called("rewrite_relative_paths", e,
                  rewrite_relative_paths(toml, metadata_package, e, fs))
    /\ UNCHANGED <<fs, ex, rg>>

NextRewrite == RewriteRelativePaths

SpecRewrite == InitRewrite /\ [][NextRewrite]_vars

----------------------------------------------------------------------------
(* C3: when rewrite_relative_paths has succeeded, a second rewrite with    *)
(* the same exclusion set succeeds and returns the same document; and a    *)
(* path that was absolute before a successful rewrite is unchanged by it.  *)

\* the path values of a document the rewrite looks at, each with its place
PathValues(t) ==
    (IF "lib" \in DOMAIN t /\ ValueHas(t["lib"], "path")
     THEN {<<"lib", 0, t["lib"].v["path"]>>} ELSE {})
    \cup (IF "bin" \in DOMAIN t /\ t["bin"].k = "Array"
          THEN {<<"bin", i, t["bin"].v[i].v["path"]>> :
                  i \in {j \in 1..Len(t["bin"].v) : ValueHas(t["bin"].v[j], "path")}}
          ELSE {})
    \cup (IF "dependencies" \in DOMAIN t /\ t["dependencies"].k = "Table"
          THEN {<<"dependencies", n, t["dependencies"].v[n].v["path"]>> :
                  n \in {x \in DOMAIN t["dependencies"].v :
                            ValueHas(t["dependencies"].v[x], "path")}}
          ELSE {})

\* C3: a second rewrite after a successful one changes nothing, and absolute
\* paths are kept
C3_RewriteIdempotent ==
    (call.op = "rewrite_relative_paths" /\ ret.ok) =>
        /\ rewrite_relative_paths(toml, metadata_package, call.arg, fs)
               = Ok(toml, metadata_package)
        /\ \A pv \in PathValues(pre.toml) :
               (IsStr(pv[3]) /\ IsAbsolute(pv[3].v)) => pv \in PathValues(toml)

\* a first rewrite that made a relative path absolute and inserted a default
C3_Witness ==
    /\ call.op = "rewrite_relative_paths"
    /\ ret.ok
    /\ ncalls = 1
    /\ toml # pre.toml
    /\ \E pv \in PathValues(pre.toml) : IsStr(pv[3]) /\ ~IsAbsolute(pv[3].v)
    /\ \E pv \in PathValues(pre.toml) : IsStr(pv[3]) /\ IsAbsolute(pv[3].v)
    /\ Cardinality(PathValues(toml)) > Cardinality(PathValues(pre.toml))

----------------------------------------------------------------------------
(* C4: after a successful rewrite_relative_paths(exclude), a dependency    *)
(* whose resolved package name is excluded has its path field unchanged,   *)
(* and any other dependency with a path field has an absolute path.        *)

\* the path field of a dependency, as a sequence of at most one value
PathField(d) == IF ValueHas(d, "path") THEN <<d.v["path"]>> ELSE <<>>

DepsChecked(resolved_in(_, _)) ==
    (/\ call.op = "rewrite_relative_paths"
     /\ ret.ok
     /\ "dependencies" \in DOMAIN pre.toml) =>
        \A n \in DOMAIN pre.toml["dependencies"].v :
            LET before == pre.toml["dependencies"].v[n]
                after == toml["dependencies"].v[n]
            IN IF resolved_in(n, before)
               THEN PathField(after) = PathField(before)
               ELSE ValueHas(after, "path") =>
                        (IsStr(after.v["path"]) /\ IsAbsolute(after.v["path"].v))

\* The claim as stated: the resolved name is the value of the `package` key
\* whenever the key is present, else the local alias.
ResolvedAsStated(n, d) ==
    IF ValueHas(d, "package")
    THEN IsStr(d.v["package"]) /\ d.v["package"].v \in call.arg
    ELSE <<n>> \in call.arg

C4_AsStated == DepsChecked(ResolvedAsStated)

\* C4 as amended: the resolved name is the value of the `package` key when
\* the key is present and a string, else the local alias.
ResolvedAmended(n, d) ==
    IF ValueHas(d, "package") /\ IsStr(d.v["package"])
    THEN d.v["package"].v \in call.arg
    ELSE <<n>> \in call.arg

C4_ExcludedDependencies == DepsChecked(ResolvedAmended)

\* the alias is excluded, the package the dependency renames is not, and
\* its relative path has been made absolute
C4_Witness ==
    /\ call.op = "rewrite_relative_paths"
    /\ ret.ok
    /\ <<"a">> \in call.arg
    /\ "dependencies" \in DOMAIN pre.toml
    /\ ValueHas(pre.toml["dependencies"], "a")
    /\ ValueHas(pre.toml["dependencies"].v["a"], "package")
    /\ ValueHas(pre.toml["dependencies"].v["a"], "path")
    /\ IsStr(pre.toml["dependencies"].v["a"].v["path"])
    /\ ~IsAbsolute(pre.toml["dependencies"].v["a"].v["path"].v)
    /\ IsAbsolute(toml["dependencies"].v["a"].v["path"].v)

----------------------------------------------------------------------------
(* metadata.rs: the merge of the driver's output with the crate metainfo.  *)

\* near-sdk: the declared version of the metadata format
METADATA_SEMVER == <<0, 1, 0>>

SemverString(v) == ToString(v[1]) \o "." \o ToString(v[2]) \o "." \o ToString(v[3])

\* serde_json::from_slice::<AbiRoot>: the bytes must be a JSON object with
\* the fields of AbiRoot; fields AbiRoot does not have are ignored.
ParsesAsAbiRoot(stdout) ==
    /\ stdout.kind = "json"
    /\ {"abi_schema_version", "abi"} \subseteq DOMAIN stdout.value

from_slice(stdout) ==
    [abi_schema_version |-> stdout.value["abi_schema_version"],
     abi |-> stdout.value["abi"]]

extract_metainfo(crate_metadata) ==
    [name |-> crate_metadata.root_package.name,
     version |-> crate_metadata.root_package.version,
     authors |-> crate_metadata.root_package.authors]

\* a ContractMetadata::new that stamps the declared version
ContractMetadata_new_declared(abi_root, metainfo) ==
    [abi_schema_version |-> SemverString(METADATA_SEMVER),
     metainfo |-> metainfo,
     abi |-> abi_root.abi]

ContractMetadata_new(abi_root, metainfo) ==
    [abi_schema_version |-> abi_root.abi_schema_version,
     metainfo |-> metainfo,
     abi |-> abi_root.abi]

----------------------------------------------------------------------------
(* SpecExecute: one run of metadata::execute.                              *)

ExecPackages ==
    Opt("package", {PackageAdder, Table(Put(EmptyTable, "name", Integer(1))),
                    Table(Put(EmptyTable, "version", Str(<<"0.1.0">>)))})

CdylibOnly == Put(EmptyTable, "crate-type", Array(<<Str(<<"cdylib">>)>>))

ExecLibs ==
    Opt("lib", {Table(CdylibOnly),
                Table(Put(CdylibOnly, "path", Str(<<"src", "/", "x.rs">>))),
                Table(Put(EmptyTable, "path", Str(<<"src", "/", "x.rs">>)))})

ExecProfiles ==
    Opt("profile", {Str(<<"profile">>),
                    Table(Put(EmptyTable, "release",
                              Table(Put(EmptyTable, "lto", Boolean(TRUE)))))})

ExecWorkspaces ==
    Opt("workspace", {Str(<<"workspace">>),
                      Table(Put(EmptyTable, "members", Array(<<Str(<<"a">>)>>)))})

FeatureKeys == {"default-features", "features", "optional"}

NearSdkTables ==
    {Merge(Merge(Put(EmptyTable, "version", Str(<<"4.0">>)), p),
           [x \in ks |-> IF x = "features" THEN Array(<<Str(<<"abi">>)>>)
                         ELSE Boolean(FALSE)]) :
        p \in Opt("path", {Str(<<"..", "/", "near-sdk">>)}),
        ks \in {{}, {"features"}, FeatureKeys}}

ExecDeps ==
    Opt("dependencies",
        {Table(Put(EmptyTable, "b", Str(<<"1.0">>))),
         Table(Put(EmptyTable, "near-sdk", Str(<<"4.0">>)))}
        \cup {Table(Put(EmptyTable, "near-sdk", Table(n))) : n \in NearSdkTables})

ExecManifests ==
    {Merge(Merge(Merge(Merge(k, l), p), w), d) :
        k \in ExecPackages, l \in ExecLibs, p \in ExecProfiles,
        w \in ExecWorkspaces, d \in ExecDeps}

\* CrateMetadata, as collected from `cargo metadata`
CrateMetadatas ==
    {[root_package |-> [name |-> <<"adder">>, version |-> "0.1.0", authors |-> <<"a">>]],
     [root_package |-> [name |-> <<"b">>, version |-> "0.2.0", authors |-> <<>>]]}

ExecFileSystems ==
    {f \in FileSystems :
        /\ f.cwd # BadDir
        /\ CanCanonicalize(f, f.path)
        /\ f.cwd = OtherDir => (SrcFiles(WsDir) \subseteq f.files
                                /\ SrcFiles(OtherDir) \cap f.files = {})}

\* What the driver process can print.
Abis ==
    {[functions |-> <<>>, types |-> <<>>],
     [functions |-> <<"add">>, types |-> <<"Pair">>]}

DriverVersions == {SemverString(METADATA_SEMVER), "0.2.0"}

DriverMetainfo == [name |-> <<"forged">>, version |-> "9.9.9", authors |-> <<"x">>]

Stdouts ==
    {[kind |-> "garbage", value |-> <<>>]}
    \cup {[kind |-> "json", value |-> a] : a \in Abis}
    \cup {[kind |-> "json", value |-> Merge([abi_schema_version |-> v, abi |-> a], x)] :
            v \in DriverVersions, a \in Abis, x \in Opt("metainfo", {DriverMetainfo})}

NoStdout == [kind |-> "none", value |-> <<>>]

\* exit codes of the child: success, and the code of a failed cargo run
ExitCodes == {0, 101}

InitExecute ==
    /\ toml \in ExecManifests
    /\ metadata_package = FALSE
    /\ pre = Manifest(toml, FALSE)
    /\ call = [op |-> "new", arg |-> <<>>]
    /\ ret = [ok |-> TRUE, err |-> ""]
    /\ ncalls = 0
    /\ fs \in ExecFileSystems
    /\ \E c \in CrateMetadatas :
           ex = [pc |-> "start", crate_metadata |-> c, tmp |-> "none", written |-> <<>>,
                 cargo_runs |-> 0, status |-> 0, stdout |-> NoStdout, err |-> ""]
    /\ rg = NoRg

\* a return that leaves the scratch directory behind
Failed_leak(x, e) == [x EXCEPT !.pc = "done", !.err = e]

\* execute returns Err(e) from the run x: a scratch directory that exists
\* goes out of scope and is deleted
Failed(x, e) ==
    [x EXCEPT !.pc = "done", !.err = e,
              !.tmp = IF x.tmp = "exists" THEN "removed" ELSE x.tmp]

Fails(e) == ex' = Failed(ex, e)

\* Workspace::new and with_root_package_manifest with the closure of execute:
\* with_added_crate_type("rlib")?.with_profile_release_lto(false)?
EditRootManifest ==
    /\ ex.pc = "start"
    /\ LET r1 == with_added_crate_type(toml, metadata_package, <<"rlib">>)
           r2 == with_profile_release_lto(r1.toml, r1.metadata_package, FALSE)
           r == IF r1.ok THEN r2 ELSE r1
       IN /\ toml' = r.toml
          /\ metadata_package' = r.metadata_package
          /\ IF r.ok THEN ex' = [ex EXCEPT !.pc = "edited"] ELSE Fails(r.err)
    /\ UNCHANGED <<pre, call, ret, ncalls, fs, rg>>

\* Workspace::with_metadata_gen_package
WithMetadataGenPackage ==
    /\ ex.pc = "edited"
    /\ LET r == with_metadata_package(toml, metadata_package)
       IN /\ toml' = r.toml
          /\ metadata_package' = r.metadata_package
          /\ IF r.ok THEN ex' = [ex EXCEPT !.pc = "registered"] ELSE Fails(r.err)
    /\ UNCHANGED <<pre, call, ret, ncalls, fs, rg>>

\* Workspace::using_temp: the scratch directory is created
CreateTemp ==
    /\ ex.pc = "registered"
    /\ ex' = [ex EXCEPT !.pc = "mirroring", !.tmp = "exists"]
    /\ UNCHANGED <<toml, metadata_package, pre, call, ret, ncalls, fs, rg>>

\* Workspace::using_temp: the root manifest is rewritten, excluding the
\* packages of the workspace, and written to the scratch directory
MirrorManifests ==
    /\ ex.pc = "mirroring"
    /\ LET r == rewrite_relative_paths(toml, metadata_package,
                                       {ex.crate_metadata.root_package.name}, fs)
           w == write(r.toml, r.metadata_package)
       IN /\ toml' = r.toml
          /\ IF ~r.ok THEN Fails(r.err)
             ELSE IF w.err # "" THEN Fails(w.err)
             ELSE ex' = [ex EXCEPT !.pc = "mirrored", !.written = @ \o w.files]
    /\ UNCHANGED <<metadata_package, pre, call, ret, ncalls, fs, rg>>

\* the error of invoke_cargo for a child that did not succeed: the message
\* ends with output.status.code()
ExitCodeError(status) == "failed with exit code: Some(" \o ToString(status) \o ")"

\* an invoke_cargo that returns the standard output whatever the status
InvokeCargo_ignore_status ==
    /\ ex.pc = "mirrored"
    /\ \E spawned \in BOOLEAN, status \in ExitCodes, stdout \in Stdouts :
           LET run == [ex EXCEPT !.cargo_runs = @ + 1]
           IN IF ~spawned THEN ex' = Failed(run, "Error executing")
              ELSE ex' = [run EXCEPT !.pc = "invoked", !.status = status,
                                     !.stdout = stdout]
    /\ UNCHANGED <<toml, metadata_package, pre, call, ret, ncalls, fs, rg>>

\* generate_metadata: util::invoke_cargo("run", ...): the child cannot be
\* spawned, or it runs and exits with a status and a standard output
InvokeCargo ==
    /\ ex.pc = "mirrored"
    /\ \E spawned \in BOOLEAN, status \in ExitCodes, stdout \in Stdouts :
           LET run == [ex EXCEPT !.cargo_runs = @ + 1]
           IN IF ~spawned THEN ex' = Failed(run, "Error executing")
              ELSE IF status = 0
              THEN ex' = [run EXCEPT !.pc = "invoked", !.status = status,
                                     !.stdout = stdout]
              ELSE ex' = Failed([run EXCEPT !.status = status], ExitCodeError(status))
    /\ UNCHANGED <<toml, metadata_package, pre, call, ret, ncalls, fs, rg>>

\* generate_metadata: parse, merge, write the artifact
MergeAndWrite ==
    /\ ex.pc = "invoked"
    /\ IF ~ParsesAsAbiRoot(ex.stdout) THEN Fails("serde_json")
       ELSE ex' = [ex EXCEPT
                !.pc = "generated",
                !.written = Append(@,
                    [file |-> MetadataFile,
                     content |-> ContractMetadata_new(from_slice(ex.stdout),
                                     extract_metainfo(ex.crate_metadata))])]
    /\ UNCHANGED <<toml, metadata_package, pre, call, ret, ncalls, fs, rg>>

\* using_temp returns Ok: the scratch directory is dropped, execute returns
ReturnOk ==
    /\ ex.pc = "generated"
    /\ ex' = [ex EXCEPT !.pc = "done", !.tmp = "removed"]
    /\ UNCHANGED <<toml, metadata_package, pre, call, ret, ncalls, fs, rg>>

NextExecute ==
    \/ EditRootManifest
    \/ WithMetadataGenPackage
    \/ CreateTemp
    \/ MirrorManifests
    \/ InvokeCargo
    \/ MergeAndWrite
    \/ ReturnOk

SpecExecute == InitExecute /\ [][NextExecute]_vars

----------------------------------------------------------------------------
(* C2: on a manifest with no [lib] section with_added_crate_type fails     *)
(* with 'lib section not found', the document in memory is as it was       *)
(* loaded, and execute ends without having written any file.               *)
C2_NoLibSection ==
    ("lib" \notin DOMAIN pre.toml /\ ex.pc # "start") =>
        /\ ex.pc = "done"
        /\ ex.err = "lib section not found"
        /\ toml = pre.toml
        /\ metadata_package = pre.metadata_package
        /\ ex.written = <<>>

\* the run on a manifest without [lib] has ended
C2_Witness ==
    /\ "lib" \notin DOMAIN pre.toml
    /\ "profile" \in DOMAIN pre.toml
    /\ ex.pc = "done"
    /\ ex.err = "lib section not found"

----------------------------------------------------------------------------
(* C5: when execute has returned, with Ok or with any error, the scratch   *)
(* directory using_temp created is gone.                                   *)
C5_ScratchRemoved ==
    (ex.pc = "done") => (ex.tmp # "exists")

\* the external tool exited non-zero after the scratch directory was
\* created and filled
C5_Witness ==
    /\ ex.pc = "done"
    /\ ex.err = ExitCodeError(ex.status)
    /\ ex.status # 0
    /\ Len(ex.written) > 0
    /\ ex.tmp = "removed"

----------------------------------------------------------------------------
(* C8: the artifact has the metainfo of the root package of the crate      *)
(* metadata, the function list and the type table the driver printed, and  *)
(* a schema version.                                                       *)

Artifacts == {ex.written[i].content :
                i \in {j \in 1..Len(ex.written) : ex.written[j].file = MetadataFile}}

MergedFromDriver(a) ==
    /\ a.metainfo.name = ex.crate_metadata.root_package.name
    /\ a.metainfo.version = ex.crate_metadata.root_package.version
    /\ a.metainfo.authors = ex.crate_metadata.root_package.authors
    /\ a.abi.functions = ex.stdout.value["abi"].functions
    /\ a.abi.types = ex.stdout.value["abi"].types

\* The claim as stated: the schema version is the declared constant.
C8_AsStated ==
    \A a \in Artifacts :
        MergedFromDriver(a) /\ a.abi_schema_version = SemverString(METADATA_SEMVER)

\* C8 as amended: the schema version is the one the driver printed.
C8_MergedArtifact ==
    \A a \in Artifacts :
        MergedFromDriver(a)
        /\ a.abi_schema_version = ex.stdout.value["abi_schema_version"]

\* an artifact was written from a driver output that carries a metainfo of
\* its own, a function and a type
C8_Witness ==
    /\ Artifacts # {}
    /\ "metainfo" \in DOMAIN ex.stdout.value
    /\ ex.stdout.value["metainfo"].name # ex.crate_metadata.root_package.name
    /\ ex.stdout.value["abi"].functions # <<>>

----------------------------------------------------------------------------
(* C9: the manifest of the driver package has a `contract` dependency      *)
(* whose `package` is the package name of the manifest being written, and  *)
(* a `near-sdk` dependency that is the manifest's near-sdk table without   *)
(* default-features, features and optional, every other key as it is.      *)

DriverManifests == {ex.written[i].content :
                      i \in {j \in 1..Len(ex.written) : ex.written[j].file = DriverManifest}}

\* C9: contract.package is the package name, near-sdk is the manifest's
\* table without the three feature keys
C9_DriverPackageManifest ==
    \A d \in DriverManifests :
        LET deps == d["dependencies"].v
            target == toml["dependencies"].v["near-sdk"].v
        IN /\ deps["contract"].k = "Table"
           /\ ValueHas(deps["contract"], "package")
           /\ deps["contract"].v["package"] = toml["package"].v["name"]
           /\ deps["near-sdk"].k = "Table"
           /\ DOMAIN deps["near-sdk"].v = (DOMAIN target) \ FeatureKeys
           /\ \A key \in (DOMAIN target) \ FeatureKeys :
                  deps["near-sdk"].v[key] = target[key]

\* a driver manifest written for a near-sdk dependency that had the three
\* keys and a path
C9_Witness ==
    /\ DriverManifests # {}
    /\ FeatureKeys \subseteq DOMAIN toml["dependencies"].v["near-sdk"].v
    /\ "path" \in DOMAIN toml["dependencies"].v["near-sdk"].v

----------------------------------------------------------------------------
(* near-sdk-macros: the TypeRegistry and metadata_struct.                  *)
(* A registry is the sequence of the registered types; the id of a type is *)
(* its position, counted from 0.                                           *)

Range(q) == {q[i] : i \in 1..Len(q)}

IndexOf(q, x) == CHOOSE i \in 1..Len(q) : q[i] = x

\* a register_type that gives every call a fresh id
register_type_fresh(registry, ty) ==
    [id |-> Len(registry), registry |-> Append(registry, ty)]

\* TypeRegistry::register_type: [id, registry]
register_type(registry, ty) ==
    IF ty \in Range(registry)
    THEN [id |-> IndexOf(registry, ty) - 1, registry |-> registry]
    ELSE [id |-> Len(registry), registry |-> Append(registry, ty)]

\* .map(|arg| registry.register_type(arg.ty)) over the arguments from the
\* i-th on: [ids, registry]
RECURSIVE register_args(_, _, _)
register_args(args, i, registry) ==
    IF i > Len(args) THEN [ids |-> <<>>, registry |-> registry]
    ELSE LET r == register_type(registry, args[i].ty)
             rest == register_args(args, i + 1, r.registry)
         IN [ids |-> <<r.id>> \o rest.ids, registry |-> rest.registry]

\* AttrSigInfo::input_args and the two filters on bindgen_ty
OfKind(args, kind) == SelectSeq(args, LAMBDA a : a.bindgen_ty = kind)

CompileError ==
    [kind |-> "compile_error",
     span |-> "call_site",
     message |-> <<"A function can only have one #[callback_vec] parameter.">>]

\* the register_type calls made for some arguments: the type and the id
\* returned, in order
Calls(args, ids) == [i \in 1..Len(args) |-> [ty |-> args[i].ty, id |-> ids[i]]]

\* a metadata_struct that takes the last of several callback vectors
metadata_struct_last(f, registry) ==
    LET params == register_args(OfKind(f.args, "Regular"), 1, registry)
        callbacks == register_args(OfKind(f.args, "CallbackArg"), 1, params.registry)
        callback_vec == OfKind(f.args, "CallbackArgVec")
        last == IF callback_vec = <<>> THEN <<>> ELSE <<callback_vec[Len(callback_vec)]>>
        vec == register_args(last, 1, callbacks.registry)
        returns == IF f.returns = "Default" THEN <<>> ELSE <<[ty |-> f.returns]>>
        result == register_args(returns, 1, vec.registry)
    IN [out |-> [kind |-> "AbiFunction",
                 name |-> f.name,
                 is_view |-> f.method_type = "View",
                 is_init |-> f.method_type \in {"Init", "InitIgnoreState"},
                 params |-> params.ids,
                 callbacks |-> callbacks.ids,
                 callbacks_vec |-> vec.ids,
                 result |-> result.ids],
        calls |-> Calls(OfKind(f.args, "Regular"), params.ids)
                  \o Calls(OfKind(f.args, "CallbackArg"), callbacks.ids)
                  \o Calls(last, vec.ids) \o Calls(returns, result.ids),
        registry |-> result.registry]

\* a metadata_struct that registers the callback parameters before the
\* regular ones
metadata_struct_callbacks_first(f, registry) ==
    LET callbacks == register_args(OfKind(f.args, "CallbackArg"), 1, registry)
        params == register_args(OfKind(f.args, "Regular"), 1, callbacks.registry)
        callback_vec == OfKind(f.args, "CallbackArgVec")
        last == IF callback_vec = <<>> THEN <<>> ELSE <<callback_vec[Len(callback_vec)]>>
        vec == register_args(last, 1, params.registry)
        returns == IF f.returns = "Default" THEN <<>> ELSE <<[ty |-> f.returns]>>
        result == register_args(returns, 1, vec.registry)
    IN IF Len(callback_vec) > 1
       THEN [out |-> CompileError,
             calls |-> Calls(OfKind(f.args, "CallbackArg"), callbacks.ids)
                       \o Calls(OfKind(f.args, "Regular"), params.ids),
             registry |-> params.registry]
       ELSE [out |-> [kind |-> "AbiFunction",
                      name |-> f.name,
                      is_view |-> f.method_type = "View",
                      is_init |-> f.method_type \in {"Init", "InitIgnoreState"},
                      params |-> params.ids,
                      callbacks |-> callbacks.ids,
                      callbacks_vec |-> vec.ids,
                      result |-> result.ids],
             calls |-> Calls(OfKind(f.args, "CallbackArg"), callbacks.ids)
                       \o Calls(OfKind(f.args, "Regular"), params.ids)
                       \o Calls(last, vec.ids) \o Calls(returns, result.ids),
             registry |-> result.registry]

\* ImplItemMethodInfo::metadata_struct: [out, calls, registry]; an
\* Option is a sequence of at most one id
metadata_struct(f, registry) ==
    LET params == register_args(OfKind(f.args, "Regular"), 1, registry)
        callbacks == register_args(OfKind(f.args, "CallbackArg"), 1, params.registry)
        callback_vec == OfKind(f.args, "CallbackArgVec")
        last == IF callback_vec = <<>> THEN <<>> ELSE <<callback_vec[Len(callback_vec)]>>
        vec == register_args(last, 1, callbacks.registry)
        returns == IF f.returns = "Default" THEN <<>> ELSE <<[ty |-> f.returns]>>
        result == register_args(returns, 1, vec.registry)
    IN IF Len(callback_vec) > 1
       THEN [out |-> CompileError,
             calls |-> Calls(OfKind(f.args, "Regular"), params.ids)
                       \o Calls(OfKind(f.args, "CallbackArg"), callbacks.ids),
             registry |-> callbacks.registry]
       ELSE [out |-> [kind |-> "AbiFunction",
                      name |-> f.name,
                      is_view |-> f.method_type = "View",
                      is_init |-> f.method_type \in {"Init", "InitIgnoreState"},
                      params |-> params.ids,
                      callbacks |-> callbacks.ids,
                      callbacks_vec |-> vec.ids,
                      result |-> result.ids],
             calls |-> Calls(OfKind(f.args, "Regular"), params.ids)
                       \o Calls(OfKind(f.args, "CallbackArg"), callbacks.ids)
                       \o Calls(last, vec.ids) \o Calls(returns, result.ids),
             registry |-> result.registry]

----------------------------------------------------------------------------
(* SpecRegistry: one generation pass over the functions of a contract.     *)

ArgTypes == {"u32", "Pair"}
ReturnTypes == {"Default", "Pair", "bool"}
BindgenArgTypes == {"Regular", "CallbackArg", "CallbackArgVec"}
MethodTypes == {"Regular", "View", "Init", "InitIgnoreState"}

\* the name of the i-th function of the contract
FunctionName(i) == "f" \o ToString(i)

Arguments == [ty : ArgTypes, bindgen_ty : BindgenArgTypes]

NoFunction == [name |-> "", method_type |-> "Regular", args |-> <<>>, returns |-> "Default"]
NoOutput == [kind |-> "none"]

InitRegistry ==
    /\ toml = EmptyTable
    /\ metadata_package = FALSE
    /\ pre = Manifest(EmptyTable, FALSE)
    /\ call = [op |-> "new", arg |-> <<>>]
    /\ ret = [ok |-> TRUE, err |-> ""]
    /\ ncalls = 0
    /\ fs = NoFs
    /\ ex = NoEx
    /\ rg = [pc |-> "pass", registry |-> <<>>, before |-> <<>>, nfuns |-> 0,
             args |-> <<>>, f |-> NoFunction, out |-> NoOutput, calls |-> <<>>,
             issued |-> {}, first |-> <<>>, seen |-> <<>>]

\* the types in order of their first registration
RECURSIVE FirstSeen(_, _, _)
FirstSeen(calls, i, first) ==
    IF i > Len(calls) THEN first
    ELSE FirstSeen(calls, i + 1,
                   IF calls[i].ty \in Range(first) THEN first
                   ELSE Append(first, calls[i].ty))

\* The types of a function in the order of the traversal: the regular
\* parameters, the callback parameters, the callback vector, the result;
\* the traversal of a function with several callback vectors ends after its
\* callback parameters.
Traversal(f) ==
    LET TypesOf(args) == [i \in 1..Len(args) |-> [ty |-> args[i].ty]]
        callback_vec == OfKind(f.args, "CallbackArgVec")
    IN TypesOf(OfKind(f.args, "Regular"))
       \o TypesOf(OfKind(f.args, "CallbackArg"))
       \o (IF Len(callback_vec) > 1 THEN <<>>
           ELSE TypesOf(callback_vec)
                \o (IF f.returns = "Default" THEN <<>> ELSE <<[ty |-> f.returns]>>))

\* The pass takes up the next function of the contract; what is known of
\* the previous call is dropped.
NextFunction ==
    /\ rg.pc = "pass"
    /\ rg.nfuns < MaxFunctions
    /\ rg' = [rg EXCEPT !.pc = "function",
                        !.args = <<>>,
                        !.before = rg.registry,
                        !.f = NoFunction,
                        !.out = NoOutput,
                        !.calls = <<>>]
    /\ UNCHANGED <<toml, metadata_package, pre, call, ret, ncalls, fs, ex>>

\* The function taken up is declared with one more parameter.
DeclareArg ==
    /\ rg.pc = "function"
    /\ Len(rg.args) < MaxArgs
    /\ \E a \in Arguments : rg' = [rg EXCEPT !.args = Append(@, a)]
    /\ UNCHANGED <<toml, metadata_package, pre, call, ret, ncalls, fs, ex>>

\* metadata_struct on the function taken up
MetadataStruct ==
    /\ rg.pc = "function"
    /\ \E m \in MethodTypes, t \in ReturnTypes :
           LET f == [name |-> FunctionName(rg.nfuns + 1), method_type |-> m,
                     args |-> rg.args, returns |-> t]
               r == metadata_struct(f, rg.registry)
           IN rg' = [rg EXCEPT !.pc = "pass",
                               !.registry = r.registry,
                               !.before = rg.registry,
                               !.nfuns = @ + 1,
                               !.args = <<>>,
                               !.f = f,
                               !.out = r.out,
                               !.calls = r.calls,
                               !.issued = @ \cup Range(r.calls),
                               !.first = FirstSeen(r.calls, 1, @),
                               !.seen = FirstSeen(Traversal(f), 1, @)]
    /\ UNCHANGED <<toml, metadata_package, pre, call, ret, ncalls, fs, ex>>

NextRegistry == NextFunction \/ DeclareArg \/ MetadataStruct

SpecRegistry == InitRegistry /\ [][NextRegistry]_vars

----------------------------------------------------------------------------
(* C6: over all register_type calls on one registry, the same type always  *)
(* gets the same id, two types never share an id, the ids handed out are   *)
(* 0, 1, 2, ... in order of first registration, and no entry of the        *)
(* registry is ever removed or renumbered.                                 *)
C6_RegistryIds ==
    /\ \A p \in rg.issued : \A q \in rg.issued : (p.ty = q.ty) <=> (p.id = q.id)
    /\ {p.id : p \in rg.issued} = 0..(Len(rg.first) - 1)
    /\ \A p \in rg.issued : rg.first[p.id + 1] = p.ty
    /\ Len(rg.before) <= Len(rg.registry)
    /\ SubSeq(rg.registry, 1, Len(rg.before)) = rg.before

\* a function whose parameters repeat a type registered by an earlier
\* function, in a pass that has seen three types
C6_Witness ==
    /\ rg.nfuns >= 2
    /\ Len(rg.first) = 3
    /\ \E i \in 1..Len(rg.calls) : \E j \in 1..Len(rg.calls) :
           i < j /\ rg.calls[i].ty = rg.calls[j].ty
    /\ \E i \in 1..Len(rg.calls) : rg.calls[i].ty \in Range(rg.before)

----------------------------------------------------------------------------
(* C7: metadata_struct returns a build-time error and no AbiFunction       *)
(* exactly for the functions with more than one callback-vector parameter. *)

CallbackVecs(f) == Len(OfKind(f.args, "CallbackArgVec"))

RejectsSecondCallbackVec ==
    (rg.out.kind # "none") =>
        /\ (CallbackVecs(rg.f) > 1) => (rg.out.kind = "compile_error")
        /\ (CallbackVecs(rg.f) <= 1) =>
               (rg.out.kind = "AbiFunction" /\ rg.out.name = rg.f.name)

\* the error names the function: its name is in the message, or the error
\* is placed on the function
NamesFunction(out, f) == f.name \in Range(out.message) \/ out.span = f.name

\* The claim as stated: the error names the offending function.
C7_AsStated ==
    /\ RejectsSecondCallbackVec
    /\ (rg.out.kind = "compile_error") => NamesFunction(rg.out, rg.f)

\* C7 as amended: the error is the fixed message 'A function can only have
\* one #[callback_vec] parameter.', placed at the call site of the macro.
C7_CallbackVecRejected ==
    /\ RejectsSecondCallbackVec
    /\ (rg.out.kind = "compile_error") => (rg.out = CompileError)

\* a function with two callback vectors was rejected after one that was not
C7_Witness ==
    /\ rg.nfuns = 2
    /\ CallbackVecs(rg.f) = 2
    /\ rg.out.kind = "compile_error"

----------------------------------------------------------------------------
(* C11: a [lib] table or [[bin]] entry without a `path` key gets the       *)
(* manifest's directory joined with the default exactly when the default   *)
(* file exists in the manifest's directory, and the rewrite fails          *)
(* otherwise; the file at an inserted path exists, whatever the current    *)
(* directory of the process.                                               *)

NoDefaultFound == "No path specified, and the default was not found"

\* the tables of a document that have no `path` key where rewrite_path looks
\* for one, each with its place and its default
NeedDefault(t) ==
    (IF "lib" \in DOMAIN t /\ t["lib"].k = "Table" /\ "path" \notin DOMAIN t["lib"].v
     THEN {<<"lib", 0, SrcLibRs>>} ELSE {})
    \cup (IF "bin" \in DOMAIN t /\ t["bin"].k = "Array"
          THEN {<<"bin", i, SrcMainRs>> :
                  i \in {j \in 1..Len(t["bin"].v) :
                            /\ t["bin"].v[j].k = "Table"
                            /\ "path" \notin DOMAIN t["bin"].v[j].v}}
          ELSE {})

\* the value under `path` at a place of a document, <<>> when there is none
PathAt(t, place) ==
    LET tab == IF place[1] = "lib" THEN t["lib"] ELSE t["bin"].v[place[2]]
    IN IF ValueHas(tab, "path") THEN <<tab.v["path"]>> ELSE <<>>

\* the file a path string of the document names is on the file system
\* (the string is the lossy rendering of the path of a file)
NamesFile(f, val) ==
    IsStr(val) /\ \E p \in f.files : to_string_lossy(p) = val.v

\* C11 as stated: a default is inserted only for a file that exists in the
\* manifest's directory, and the rewrite reports a missing default only when
\* one is missing there
C11_AsStated ==
    (call.op = "rewrite_relative_paths" /\ CanCanonicalize(fs, fs.path)) =>
        LET abs_dir == Parent(Canonicalize(fs, fs.path))
        IN /\ \A place \in NeedDefault(pre.toml) :
                  PathAt(toml, place) # <<>> =>
                      /\ PathAt(toml, place)[1]
                             = Str(to_string_lossy(PathJoin(abs_dir, place[3])))
                      /\ PathJoin(abs_dir, place[3]) \in fs.files
                      /\ NamesFile(fs, PathAt(toml, place)[1])
           /\ (~ret.ok /\ ret.err = NoDefaultFound) =>
                  \E place \in NeedDefault(pre.toml) :
                      PathJoin(abs_dir, place[3]) \notin fs.files

\* the manifest of /ws was rewritten from /other, where src/lib.rs exists:
\* the path /ws/src/lib.rs was inserted in [lib] and names no file
C11_InsertedMissingFile ==
    /\ call.op = "rewrite_relative_paths"
    /\ ret.ok
    /\ fs.cwd = OtherDir
    /\ <<"lib", 0, SrcLibRs>> \in NeedDefault(pre.toml)
    /\ PathAt(toml, <<"lib", 0, SrcLibRs>>) = <<Str(PathJoin(WsDir, SrcLibRs))>>
    /\ PathJoin(WsDir, SrcLibRs) \notin fs.files
    /\ PathJoin(OtherDir, SrcLibRs) \in fs.files

----------------------------------------------------------------------------
(* C12: Manifest::write on a document flagged for a driver package: when   *)
(* it fails with a structural error none of the target manifest, the       *)
(* driver manifest and the driver entry point has been written; when it    *)
(* succeeds, the driver manifest and entry point were written before the   *)
(* target manifest.                                                        *)

\* the structural errors of Manifest::write
WriteErrors ==
    {"package section not found", "[package] name field not found",
     "[package] name should be a string", "[dependencies] section not found",
     "near-sdk dependency not found", "near-sdk dependency should be a table"}

\* the positions of a file in the sequence of the writes of the run
WrittenAt(file) == {i \in 1..Len(ex.written) : ex.written[i].file = file}

\* C12: a structural error of write leaves no file behind; a successful write
\* of a flagged document writes the driver manifest, then the driver entry
\* point, then the target manifest
C12_NoPartialManifest ==
    /\ (ex.pc = "done" /\ ex.err \in WriteErrors) =>
           /\ metadata_package
           /\ WrittenAt(TmpManifest) = {}
           /\ WrittenAt(DriverManifest) = {}
           /\ WrittenAt(DriverMain) = {}
    /\ \A i \in WrittenAt(TmpManifest) :
           metadata_package =>
               /\ ex.written[i].content = toml
               /\ \E j \in WrittenAt(DriverManifest) : \E k \in WrittenAt(DriverMain) :
                      j < k /\ k < i

\* write failed on a flagged document whose near-sdk dependency is a version
\* string, after the scratch directory was created
C12_Witness ==
    /\ ex.pc = "done"
    /\ ex.err = "near-sdk dependency should be a table"
    /\ metadata_package
    /\ write_err(toml) = ex.err
    /\ ex.tmp = "removed"
    /\ ex.written = <<>>

----------------------------------------------------------------------------
(* C13: in one run of execute the external tool is invoked at most once;   *)
(* a non-zero exit status ends the run with an error that carries the      *)
(* exit code, a standard output that does not parse as the ABI schema      *)
(* ends it with a parse error, and in both cases abi.json is not written.  *)
(* The artifact is written only after a zero status and a successful       *)
(* parse.                                                                  *)

\* C13: at most one invocation; the two failures end the run without an
\* artifact; an artifact implies a zero status and a parsed output
C13_InvokedOnce ==
    /\ ex.cargo_runs <= 1
    /\ (ex.status # 0) =>
           /\ ex.pc = "done"
           /\ ex.err = ExitCodeError(ex.status)
           /\ Artifacts = {}
    /\ (ex.pc \notin {"mirrored", "invoked"} /\ ex.stdout # NoStdout
           /\ ~ParsesAsAbiRoot(ex.stdout)) =>
           /\ ex.pc = "done"
           /\ ex.err = "serde_json"
           /\ Artifacts = {}
    /\ (ex.pc = "done" /\ ex.err # "") => Artifacts = {}
    /\ (Artifacts # {}) =>
           /\ ex.cargo_runs = 1
           /\ ex.status = 0
           /\ ParsesAsAbiRoot(ex.stdout)
           /\ Cardinality(WrittenAt(MetadataFile)) = 1

\* the tool ran once, exited zero and printed bytes that are not the ABI
\* schema: the run has ended with the parse error and without an artifact
C13_Witness ==
    /\ ex.pc = "done"
    /\ ex.cargo_runs = 1
    /\ ex.status = 0
    /\ ex.stdout.kind = "garbage"
    /\ ex.err = "serde_json"
    /\ Artifacts = {}

----------------------------------------------------------------------------
(* C14: with_metadata_package succeeds when `workspace` is absent or a     *)
(* table and `workspace.members` is absent or an array; then               *)
(* workspace.members is the array of the members listed before followed by *)
(* '.near/metadata_gen', and the document is flagged, so that write        *)
(* synthesizes the driver package.  When `workspace` is not a table or     *)
(* `members` is not an array it fails with a structural error and does not *)
(* set the flag.                                                           *)

WorkspaceShapeOk(t) ==
    \/ "workspace" \notin DOMAIN t
    \/ /\ t["workspace"].k = "Table"
       /\ \/ "members" \notin DOMAIN t["workspace"].v
          \/ t["workspace"].v["members"].k = "Array"

\* the members a document lists, none when there is no array
MembersOf(t) ==
    IF "workspace" \in DOMAIN t /\ ValueHas(t["workspace"], "members")
    THEN t["workspace"].v["members"].v
    ELSE <<>>

\* the document completed with a [dependencies] section that names near-sdk
WithNearSdk(t) ==
    Put(t, "dependencies",
        Table(Put(EmptyTable, "near-sdk",
                  Table(Put(EmptyTable, "version", Str(<<"4.0">>))))))

\* C14: the driver path is appended to the members and the flag is set; a
\* workspace or members of another kind is an error and the flag is as before
C14_MetadataPackageMember ==
    (call.op = "with_metadata_package") =>
        IF WorkspaceShapeOk(pre.toml)
        THEN /\ ret.ok
             /\ SameExcept(toml, pre.toml, "workspace")
             /\ toml["workspace"].k = "Table"
             /\ SameExcept(toml["workspace"].v, Sub(pre.toml, "workspace"), "members")
             /\ toml["workspace"].v["members"].k = "Array"
             /\ MembersOf(toml) = Append(MembersOf(pre.toml), Str(METADATA_PACKAGE_PATH))
             /\ metadata_package
             /\ LET w == write(WithNearSdk(toml), metadata_package)
                IN /\ w.err = ""
                   /\ Len(w.files) = 3
                   /\ w.files[1].file = DriverManifest
                   /\ w.files[2].file = DriverMain
        ELSE /\ ~ret.ok
             /\ ret.err \in {"workspace should be a table", "members should be an array"}
             /\ metadata_package = pre.metadata_package
             /\ toml = pre.toml

\* the driver path was appended after a member that was listed, on a
\* document that was not flagged
C14_Witness ==
    /\ call.op = "with_metadata_package"
    /\ ret.ok
    /\ ~pre.metadata_package
    /\ metadata_package
    /\ Len(MembersOf(pre.toml)) = 1
    /\ Len(MembersOf(toml)) = 2
    /\ MembersOf(toml)[2] = Str(METADATA_PACKAGE_PATH)

----------------------------------------------------------------------------
(* C15: metadata_struct registers the types of a function in the order     *)
(* regular parameters, callback parameters, callback vector, result, each  *)
(* group in declaration order; so over the functions of a pass the id of a *)
(* type is the number of distinct types met before its first occurrence in *)
(* that traversal.  The ids are a function of the traversal alone: two     *)
(* passes over the same input assign the same ids.                         *)

\* rg.seen holds the distinct types of the traversal of the functions so
\* far, in order of first occurrence: a type at position p has p - 1
\* distinct types before it

\* C15: the register_type calls of a function follow its traversal, every id
\* is the number of distinct types met before, and the ids of the output are
\* those of the calls, group by group
C15_RegistrationOrder ==
    /\ Len(rg.calls) = Len(Traversal(rg.f))
    /\ \A j \in 1..Len(rg.calls) :
           /\ rg.calls[j].ty = Traversal(rg.f)[j].ty
           /\ rg.calls[j].id + 1 \in 1..Len(rg.seen)
           /\ rg.seen[rg.calls[j].id + 1] = rg.calls[j].ty
    /\ \A i \in 1..Len(rg.seen) : \A j \in 1..Len(rg.seen) :
           (rg.seen[i] = rg.seen[j]) => (i = j)
    /\ rg.registry = rg.seen
    /\ (rg.out.kind = "AbiFunction") =>
           rg.out.params \o rg.out.callbacks \o rg.out.callbacks_vec \o rg.out.result
               = [j \in 1..Len(rg.calls) |-> rg.calls[j].id]

\* the second function of a pass declares a callback vector, then a callback
\* parameter, then a regular parameter, and returns a value: the types were
\* registered in the reverse of that order, then the result; one of them
\* was known and one got a new id
C15_Witness ==
    /\ rg.nfuns = 2
    /\ rg.out.kind = "AbiFunction"
    /\ Len(rg.f.args) = 3
    /\ rg.f.args[1].bindgen_ty = "CallbackArgVec"
    /\ rg.f.args[2].bindgen_ty = "CallbackArg"
    /\ rg.f.args[3].bindgen_ty = "Regular"
    /\ rg.f.args[2].ty # rg.f.args[3].ty
    /\ rg.f.returns # "Default"
    /\ Len(rg.calls) = 4
    /\ rg.calls[1].ty = rg.f.args[3].ty
    /\ rg.calls[2].ty = rg.f.args[2].ty
    /\ rg.calls[3].ty = rg.f.args[1].ty
    /\ rg.calls[4].ty = rg.f.returns
    /\ \E j \in 1..Len(rg.calls) : rg.calls[j].id < Len(rg.before)
    /\ \E j \in 1..Len(rg.calls) : rg.calls[j].id >= Len(rg.before)

----------------------------------------------------------------------------
(* C16: when metadata_struct rejects a function for having more than one   *)
(* callback-vector parameter, the type registry is as it was before the    *)
(* call: no type of the rejected function has been registered.             *)

\* C16 as stated: a rejection makes no register_type call and leaves the
\* registry as it was
C16_AsStated ==
    (rg.out.kind = "compile_error") =>
        /\ rg.calls = <<>>
        /\ rg.registry = rg.before

\* a function with a regular parameter of a type not seen before and two
\* callback vectors was rejected, and the type of the parameter is in the
\* registry
C16_RegisteredBeforeRejection ==
    /\ rg.out.kind = "compile_error"
    /\ CallbackVecs(rg.f) = 2
    /\ Len(rg.registry) > Len(rg.before)
    /\ \E a \in Range(rg.f.args) :
           /\ a.bindgen_ty = "Regular"
           /\ a.ty \notin Range(rg.before)
           /\ a.ty \in Range(rg.registry)

====
